---- MODULE Spec2Model ----
(***************************************************************************)
(* In-memory MVCC key-value store (mvcc_store.py, class MVCCStore).        *)
(*                                                                         *)
(* The store is single-threaded: every public call runs to completion, so  *)
(* each call is one atomic action.  A call either returns or raises; the   *)
(* variable `result` holds what the most recent call returned or raised.   *)
(***************************************************************************)
EXTENDS Integers, Sequences, FiniteSets, TLC

\* ---------------------------------------------------------------- bounds
MaxTxn == 3         \* number of begin() calls explored
MaxTimestamp == 2   \* number of Version objects created (put / tombstone)

Keys == {"k1"}
Values == {100, 200}

\* ------------------------------------------------------- TxnState (enum)
ACTIVE == "active"
COMMITTED == "committed"
ABORTED == "aborted"

\* ------------------------------------------------------------ exceptions
NoError == "none"
KeyNotFoundError == "KeyNotFoundError"
TransactionAbortedError == "TransactionAbortedError"
TransactionCommittedError == "TransactionCommittedError"

VARIABLES
    data,               \* MVCCStore.data: key -> list of versions, newest first
    txn_counter,        \* MVCCStore._txn_counter
    timestamp_counter,  \* MVCCStore._timestamp_counter
    active_txns,        \* MVCCStore.active_txns (its key set)
    txns,               \* the Transaction objects handed out by begin(), by id
    result              \* what the most recent call raised or returned

vars == <<data, txn_counter, timestamp_counter, active_txns, txns, result>>

\* ------------------------------------------------------------ dataclasses
\* Version(value, created_txn_id, deleted_txn_id, timestamp)
Version(value, created_txn_id, deleted_txn_id, timestamp) ==
    [value |-> value, created_txn_id |-> created_txn_id,
     deleted_txn_id |-> deleted_txn_id, timestamp |-> timestamp]

\* Optional[Version]: None
None == [none |-> TRUE]

\* Transaction(id, begin_time, state); read_set and write_set start empty
Transaction(id, begin_time, state) ==
    [id |-> id, begin_time |-> begin_time, state |-> state,
     read_set |-> <<>>, write_set |-> <<>>]

\* dict[key] = item
DictSet(dict, key, item) ==
    [k \in (DOMAIN dict) \cup {key} |-> IF k = key THEN item ELSE dict[k]]

\* mutant of is_visible_to: every committed version is visible, whatever the
\* reader's begin time
is_visible_to_always(version, txn_begin_time) ==
    version.created_txn_id > 0

\* Version.is_visible_to
is_visible_to(version, txn_begin_time) ==
    version.created_txn_id <= txn_begin_time

\* mutant of ScanVersions: a visible delete marker is skipped and the scan
\* goes on to the older versions
RECURSIVE ScanVersions_skip_tombstones(_, _)
ScanVersions_skip_tombstones(versions, begin_time) ==
    IF versions = <<>> THEN None
    ELSE LET version == Head(versions) IN
         IF is_visible_to(version, begin_time) /\ version.deleted_txn_id = 0
         THEN version
         ELSE ScanVersions_skip_tombstones(Tail(versions), begin_time)

\* mutant of ScanVersions: the chain is scanned oldest to newest
RECURSIVE ScanVersions_oldest_first(_, _)
ScanVersions_oldest_first(versions, begin_time) ==
    IF versions = <<>> THEN None
    ELSE LET version == versions[Len(versions)] IN
         IF is_visible_to(version, begin_time)
         THEN IF version.deleted_txn_id # 0 /\ version.deleted_txn_id <= begin_time
              THEN None
              ELSE version
         ELSE ScanVersions_oldest_first(SubSeq(versions, 1, Len(versions) - 1),
                                        begin_time)

\* the loop of _find_visible_version over `versions`, newest to oldest
RECURSIVE ScanVersions(_, _)
ScanVersions(versions, begin_time) ==
    IF versions = <<>> THEN None
    ELSE LET version == Head(versions) IN
         IF is_visible_to(version, begin_time)
         THEN IF version.deleted_txn_id # 0 /\ version.deleted_txn_id <= begin_time
              THEN None
              ELSE version
         ELSE ScanVersions(Tail(versions), begin_time)

\* MVCCStore._find_visible_version, on a chain map d
FindVisibleIn(d, key, txn) ==
    ScanVersions(IF key \in DOMAIN d THEN d[key] ELSE <<>>, txn.begin_time)

_find_visible_version(key, txn) == FindVisibleIn(data, key, txn)

\* mutant of _check_txn_state: a committed transaction passes the check
_check_txn_state_aborted_only(txn) ==
    IF txn.state = ABORTED THEN TransactionAbortedError ELSE NoError

\* mutant of _check_txn_state: only the committed state is rejected
_check_txn_state_committed_only(txn) ==
    IF txn.state = COMMITTED THEN TransactionCommittedError ELSE NoError

\* MVCCStore._check_txn_state: the exception it raises, or NoError
_check_txn_state(txn) ==
    IF txn.state = COMMITTED THEN TransactionCommittedError
    ELSE IF txn.state = ABORTED THEN TransactionAbortedError
    ELSE NoError

\* outcome of a call: the exception raised (or NoError) and the value returned
Outcome(err, ret) == [err |-> err, ret |-> ret]

\* mutant of GetIn: the committed chain is consulted before the write set
GetIn_chain_first(d, txn, key) ==
    IF _check_txn_state(txn) # NoError THEN Outcome(_check_txn_state(txn), 0)
    ELSE IF FindVisibleIn(d, key, txn) # None
         THEN Outcome(NoError, FindVisibleIn(d, key, txn).value)
         ELSE IF key \in DOMAIN txn.write_set /\ txn.write_set[key].deleted_txn_id = 0
              THEN Outcome(NoError, txn.write_set[key].value)
              ELSE Outcome(KeyNotFoundError, 0)

\* mutant of GetIn: a pending entry is returned whether or not it is marked
\* deleted
GetIn_ignores_marker(d, txn, key) ==
    IF _check_txn_state(txn) # NoError THEN Outcome(_check_txn_state(txn), 0)
    ELSE IF key \in DOMAIN txn.write_set
         THEN Outcome(NoError, txn.write_set[key].value)
         ELSE IF FindVisibleIn(d, key, txn) = None
              THEN Outcome(KeyNotFoundError, 0)
              ELSE Outcome(NoError, FindVisibleIn(d, key, txn).value)

\* what MVCCStore.get raises or returns for txn and key, on a chain map d
GetIn(d, txn, key) ==
    IF _check_txn_state(txn) # NoError THEN Outcome(_check_txn_state(txn), 0)
    ELSE IF key \in DOMAIN txn.write_set
         THEN IF txn.write_set[key].deleted_txn_id # 0
              THEN Outcome(KeyNotFoundError, 0)
              ELSE Outcome(NoError, txn.write_set[key].value)
         ELSE IF FindVisibleIn(d, key, txn) = None
              THEN Outcome(KeyNotFoundError, 0)
              ELSE Outcome(NoError, FindVisibleIn(d, key, txn).value)

GetOutcome(t, key) == GetIn(data, txns[t], key)

\* ------------------------------------------------------------------- Init
Init ==
    /\ data = <<>>
    /\ txn_counter = 0
    /\ timestamp_counter = 0
    /\ active_txns = {}
    /\ txns = <<>>
    /\ result = Outcome(NoError, 0)

\* ---------------------------------------------------------------- actions
\* mutant of Begin: the id is the lowest one above the ids still active, so
\* the id of an ended transaction is handed out again
Begin_reuses_id ==
    /\ txn_counter < MaxTxn
    /\ LET txn_id == Cardinality(active_txns) + 1 IN
        /\ txn_counter' = txn_counter + 1
        /\ txns' = Append(txns, Transaction(txn_id, txn_id, ACTIVE))
        /\ active_txns' = active_txns \cup {txn_id}
        /\ result' = Outcome(NoError, 0)
    /\ UNCHANGED <<data, timestamp_counter>>

\* MVCCStore.begin
Begin ==
    /\ txn_counter < MaxTxn
    /\ LET txn_id == txn_counter + 1 IN
        /\ txn_counter' = txn_id
        /\ txns' = Append(txns, Transaction(txn_id, txn_id, ACTIVE))
        /\ active_txns' = active_txns \cup {txn_id}
        /\ result' = Outcome(NoError, 0)
    /\ UNCHANGED <<data, timestamp_counter>>

\* MVCCStore.get
Get(t, key) ==
    /\ result' = GetOutcome(t, key)
    /\ IF /\ GetOutcome(t, key).err = NoError
          /\ key \notin DOMAIN txns[t].write_set
       THEN txns' = [txns EXCEPT ![t].read_set =
                        DictSet(@, key, _find_visible_version(key, txns[t]).timestamp)]
       ELSE UNCHANGED txns
    /\ UNCHANGED <<data, txn_counter, timestamp_counter, active_txns>>

\* mutant of Put: the new version is written through to the chain as well
Put_write_through(t, key, value) ==
    IF _check_txn_state(txns[t]) # NoError
    THEN /\ result' = Outcome(_check_txn_state(txns[t]), 0)
         /\ UNCHANGED <<data, txn_counter, timestamp_counter, active_txns, txns>>
    ELSE /\ timestamp_counter < MaxTimestamp
         /\ timestamp_counter' = timestamp_counter + 1
         /\ txns' = [txns EXCEPT ![t].write_set =
                        DictSet(@, key, Version(value, txns[t].id, 0, timestamp_counter + 1))]
         /\ data' = DictSet(data, key,
                            <<Version(value, txns[t].id, 0, timestamp_counter + 1)>>
                            \o (IF key \in DOMAIN data THEN data[key] ELSE <<>>))
         /\ result' = Outcome(NoError, 0)
         /\ UNCHANGED <<txn_counter, active_txns>>

\* mutant of Put: a pending delete marker for the key survives the put
Put_keeps_marker(t, key, value) ==
    IF _check_txn_state(txns[t]) # NoError
    THEN /\ result' = Outcome(_check_txn_state(txns[t]), 0)
         /\ UNCHANGED <<data, txn_counter, timestamp_counter, active_txns, txns>>
    ELSE /\ timestamp_counter < MaxTimestamp
         /\ timestamp_counter' = timestamp_counter + 1
         /\ txns' = [txns EXCEPT ![t].write_set =
                        DictSet(@, key,
                                Version(value, txns[t].id,
                                        IF key \in DOMAIN txns[t].write_set
                                        THEN txns[t].write_set[key].deleted_txn_id
                                        ELSE 0,
                                        timestamp_counter + 1))]
         /\ result' = Outcome(NoError, 0)
         /\ UNCHANGED <<data, txn_counter, active_txns>>

\* MVCCStore.put
Put(t, key, value) ==
    IF _check_txn_state(txns[t]) # NoError
    THEN /\ result' = Outcome(_check_txn_state(txns[t]), 0)
         /\ UNCHANGED <<data, txn_counter, timestamp_counter, active_txns, txns>>
    ELSE /\ timestamp_counter < MaxTimestamp
         /\ timestamp_counter' = timestamp_counter + 1
         /\ txns' = [txns EXCEPT ![t].write_set =
                        DictSet(@, key, Version(value, txns[t].id, 0, timestamp_counter + 1))]
         /\ result' = Outcome(NoError, 0)
         /\ UNCHANGED <<data, txn_counter, active_txns>>

\* mutant of Delete: a pending entry is removed from the write set instead of
\* being marked as deleted
Delete_drops_pending(t, key) ==
    IF _check_txn_state(txns[t]) # NoError
    THEN /\ result' = Outcome(_check_txn_state(txns[t]), 0)
         /\ UNCHANGED <<data, txn_counter, timestamp_counter, active_txns, txns>>
    ELSE IF key \in DOMAIN txns[t].write_set
    THEN /\ txns' = [txns EXCEPT ![t].write_set =
                        [k \in (DOMAIN @) \ {key} |-> @[k]]]
         /\ result' = Outcome(NoError, 0)
         /\ UNCHANGED <<data, txn_counter, timestamp_counter, active_txns>>
    ELSE IF _find_visible_version(key, txns[t]) = None
    THEN /\ result' = Outcome(KeyNotFoundError, 0)
         /\ UNCHANGED <<data, txn_counter, timestamp_counter, active_txns, txns>>
    ELSE /\ timestamp_counter < MaxTimestamp
         /\ timestamp_counter' = timestamp_counter + 1
         /\ txns' = [txns EXCEPT ![t].write_set =
                        DictSet(@, key,
                                Version(_find_visible_version(key, txns[t]).value,
                                        txns[t].id, txns[t].id, timestamp_counter + 1))]
         /\ result' = Outcome(NoError, 0)
         /\ UNCHANGED <<data, txn_counter, active_txns>>

\* mutant of Delete: the delete marker made from a committed version keeps
\* that version's creator
Delete_keeps_creator(t, key) ==
    IF _check_txn_state(txns[t]) # NoError
    THEN /\ result' = Outcome(_check_txn_state(txns[t]), 0)
         /\ UNCHANGED <<data, txn_counter, timestamp_counter, active_txns, txns>>
    ELSE IF key \in DOMAIN txns[t].write_set
    THEN /\ txns' = [txns EXCEPT ![t].write_set[key].deleted_txn_id = txns[t].id]
         /\ result' = Outcome(NoError, 0)
         /\ UNCHANGED <<data, txn_counter, timestamp_counter, active_txns>>
    ELSE IF _find_visible_version(key, txns[t]) = None
    THEN /\ result' = Outcome(KeyNotFoundError, 0)
         /\ UNCHANGED <<data, txn_counter, timestamp_counter, active_txns, txns>>
    ELSE /\ timestamp_counter < MaxTimestamp
         /\ timestamp_counter' = timestamp_counter + 1
         /\ txns' = [txns EXCEPT
                        ![t].write_set =
                            DictSet(@, key,
                                    Version(_find_visible_version(key, txns[t]).value,
                                            _find_visible_version(key, txns[t]).created_txn_id,
                                            txns[t].id, timestamp_counter + 1))]
         /\ result' = Outcome(NoError, 0)
         /\ UNCHANGED <<data, txn_counter, active_txns>>

\* mutant of Delete: existence is checked through get, which records the read
Delete_via_get(t, key) ==
    IF _check_txn_state(txns[t]) # NoError
    THEN /\ result' = Outcome(_check_txn_state(txns[t]), 0)
         /\ UNCHANGED <<data, txn_counter, timestamp_counter, active_txns, txns>>
    ELSE IF key \in DOMAIN txns[t].write_set
    THEN /\ txns' = [txns EXCEPT ![t].write_set[key].deleted_txn_id = txns[t].id]
         /\ result' = Outcome(NoError, 0)
         /\ UNCHANGED <<data, txn_counter, timestamp_counter, active_txns>>
    ELSE IF _find_visible_version(key, txns[t]) = None
    THEN /\ result' = Outcome(KeyNotFoundError, 0)
         /\ UNCHANGED <<data, txn_counter, timestamp_counter, active_txns, txns>>
    ELSE /\ timestamp_counter < MaxTimestamp
         /\ timestamp_counter' = timestamp_counter + 1
         /\ txns' = [txns EXCEPT
                        ![t].read_set =
                            DictSet(@, key, _find_visible_version(key, txns[t]).timestamp),
                        ![t].write_set =
                            DictSet(@, key,
                                    Version(_find_visible_version(key, txns[t]).value,
                                            txns[t].id, txns[t].id, timestamp_counter + 1))]
         /\ result' = Outcome(NoError, 0)
         /\ UNCHANGED <<data, txn_counter, active_txns>>

\* MVCCStore.delete
Delete(t, key) ==
    IF _check_txn_state(txns[t]) # NoError
    THEN /\ result' = Outcome(_check_txn_state(txns[t]), 0)
         /\ UNCHANGED <<data, txn_counter, timestamp_counter, active_txns, txns>>
    ELSE IF key \in DOMAIN txns[t].write_set
    THEN /\ txns' = [txns EXCEPT ![t].write_set[key].deleted_txn_id = txns[t].id]
         /\ result' = Outcome(NoError, 0)
         /\ UNCHANGED <<data, txn_counter, timestamp_counter, active_txns>>
    ELSE IF _find_visible_version(key, txns[t]) = None
    THEN /\ result' = Outcome(KeyNotFoundError, 0)
         /\ UNCHANGED <<data, txn_counter, timestamp_counter, active_txns, txns>>
    ELSE /\ timestamp_counter < MaxTimestamp
         /\ timestamp_counter' = timestamp_counter + 1
         /\ txns' = [txns EXCEPT ![t].write_set =
                        DictSet(@, key,
                                Version(_find_visible_version(key, txns[t]).value,
                                        txns[t].id, txns[t].id, timestamp_counter + 1))]
         /\ result' = Outcome(NoError, 0)
         /\ UNCHANGED <<data, txn_counter, active_txns>>

\* mutant of ApplyWrites: the new version is appended at the tail of the chain
ApplyWrites_append(d, write_set) ==
    [k \in (DOMAIN d) \cup (DOMAIN write_set) |->
        IF k \in DOMAIN write_set
        THEN (IF k \in DOMAIN d THEN d[k] ELSE <<>>) \o <<write_set[k]>>
        ELSE d[k]]

\* mutant of ApplyWrites: the new version replaces the chain of its key
ApplyWrites_overwrite(d, write_set) ==
    [k \in (DOMAIN d) \cup (DOMAIN write_set) |->
        IF k \in DOMAIN write_set THEN <<write_set[k]>> ELSE d[k]]

\* the loop of MVCCStore.commit: every write-set version goes to the head of its chain
ApplyWrites(d, write_set) ==
    [k \in (DOMAIN d) \cup (DOMAIN write_set) |->
        IF k \in DOMAIN write_set
        THEN <<write_set[k]>> \o (IF k \in DOMAIN d THEN d[k] ELSE <<>>)
        ELSE d[k]]

\* mutant of Commit: the write set is applied before the state is checked
Commit_apply_before_check(t) ==
    IF _check_txn_state(txns[t]) # NoError
    THEN /\ data' = ApplyWrites(data, txns[t].write_set)
         /\ result' = Outcome(_check_txn_state(txns[t]), 0)
         /\ UNCHANGED <<txn_counter, timestamp_counter, active_txns, txns>>
    ELSE /\ data' = ApplyWrites(data, txns[t].write_set)
         /\ txns' = [txns EXCEPT ![t].state = COMMITTED]
         /\ active_txns' = active_txns \ {txns[t].id}
         /\ result' = Outcome(NoError, 0)
         /\ UNCHANGED <<txn_counter, timestamp_counter>>

\* mutant of Commit: first committer wins; a commit is rejected, and the
\* transaction aborted, when a version of a key it wrote was committed by a
\* transaction begun after it
Commit_conflict_check(t) ==
    IF _check_txn_state(txns[t]) # NoError
    THEN /\ result' = Outcome(_check_txn_state(txns[t]), 0)
         /\ UNCHANGED <<data, txn_counter, timestamp_counter, active_txns, txns>>
    ELSE IF \E k \in DOMAIN txns[t].write_set \cup DOMAIN txns[t].read_set :
               /\ k \in DOMAIN data
               /\ \E i \in DOMAIN data[k] : data[k][i].created_txn_id > txns[t].id
    THEN /\ txns' = [txns EXCEPT ![t].state = ABORTED]
         /\ active_txns' = active_txns \ {txns[t].id}
         /\ result' = Outcome(TransactionAbortedError, 0)
         /\ UNCHANGED <<data, txn_counter, timestamp_counter>>
    ELSE /\ data' = ApplyWrites(data, txns[t].write_set)
         /\ txns' = [txns EXCEPT ![t].state = COMMITTED]
         /\ active_txns' = active_txns \ {txns[t].id}
         /\ result' = Outcome(NoError, 0)
         /\ UNCHANGED <<txn_counter, timestamp_counter>>

\* mutant of Commit: the id stays in the active registry
Commit_keeps_registered(t) ==
    IF _check_txn_state(txns[t]) # NoError
    THEN /\ result' = Outcome(_check_txn_state(txns[t]), 0)
         /\ UNCHANGED <<data, txn_counter, timestamp_counter, active_txns, txns>>
    ELSE /\ data' = ApplyWrites(data, txns[t].write_set)
         /\ txns' = [txns EXCEPT ![t].state = COMMITTED]
         /\ result' = Outcome(NoError, 0)
         /\ UNCHANGED <<txn_counter, timestamp_counter, active_txns>>

\* MVCCStore.commit
Commit(t) ==
    IF _check_txn_state(txns[t]) # NoError
    THEN /\ result' = Outcome(_check_txn_state(txns[t]), 0)
         /\ UNCHANGED <<data, txn_counter, timestamp_counter, active_txns, txns>>
    ELSE /\ data' = ApplyWrites(data, txns[t].write_set)
         /\ txns' = [txns EXCEPT ![t].state = COMMITTED]
         /\ active_txns' = active_txns \ {txns[t].id}
         /\ result' = Outcome(NoError, 0)
         /\ UNCHANGED <<txn_counter, timestamp_counter>>

\* mutant of Rollback: a committed transaction is not rejected
Rollback_no_guard(t) ==
    /\ txns' = [txns EXCEPT ![t].write_set = <<>>,
                            ![t].read_set = <<>>,
                            ![t].state = ABORTED]
    /\ active_txns' = active_txns \ {txns[t].id}
    /\ result' = Outcome(NoError, 0)
    /\ UNCHANGED <<data, txn_counter, timestamp_counter>>

\* mutant of Rollback: the state check of the other calls is used, so an
\* aborted transaction is rejected too
Rollback_checks_state(t) ==
    IF _check_txn_state(txns[t]) # NoError
    THEN /\ result' = Outcome(_check_txn_state(txns[t]), 0)
         /\ UNCHANGED <<data, txn_counter, timestamp_counter, active_txns, txns>>
    ELSE /\ txns' = [txns EXCEPT ![t].write_set = <<>>,
                                 ![t].read_set = <<>>,
                                 ![t].state = ABORTED]
         /\ active_txns' = active_txns \ {txns[t].id}
         /\ result' = Outcome(NoError, 0)
         /\ UNCHANGED <<data, txn_counter, timestamp_counter>>

\* mutant of Rollback: the write set and the read set are not cleared
Rollback_no_clear(t) ==
    IF txns[t].state = COMMITTED
    THEN /\ result' = Outcome(TransactionCommittedError, 0)
         /\ UNCHANGED <<data, txn_counter, timestamp_counter, active_txns, txns>>
    ELSE /\ txns' = [txns EXCEPT ![t].state = ABORTED]
         /\ active_txns' = active_txns \ {txns[t].id}
         /\ result' = Outcome(NoError, 0)
         /\ UNCHANGED <<data, txn_counter, timestamp_counter>>

\* MVCCStore.rollback
Rollback(t) ==
    IF txns[t].state = COMMITTED
    THEN /\ result' = Outcome(TransactionCommittedError, 0)
         /\ UNCHANGED <<data, txn_counter, timestamp_counter, active_txns, txns>>
    ELSE /\ txns' = [txns EXCEPT ![t].write_set = <<>>,
                                 ![t].read_set = <<>>,
                                 ![t].state = ABORTED]
         /\ active_txns' = active_txns \ {txns[t].id}
         /\ result' = Outcome(NoError, 0)
         /\ UNCHANGED <<data, txn_counter, timestamp_counter>>

Next ==
    \/ Begin
    \/ \E t \in DOMAIN txns, key \in Keys : Get(t, key)
    \/ \E t \in DOMAIN txns, key \in Keys, value \in Values : Put(t, key, value)
    \/ \E t \in DOMAIN txns, key \in Keys : Delete(t, key)
    \/ \E t \in DOMAIN txns : Commit(t)
    \/ \E t \in DOMAIN txns : Rollback(t)

Spec == Init /\ [][Next]_vars

\* --------------------------------------------------------------- helpers
Txns == DOMAIN txns

IsActive(t) == txns[t].state = ACTIVE

\* key is not in t's write set: t has no pending put or delete of it
NoPending(t, key) == key \notin DOMAIN txns[t].write_set

\* t holds a pending put of key that it has not deleted again
PendingPut(t, key) ==
    /\ key \in DOMAIN txns[t].write_set
    /\ txns[t].write_set[key].deleted_txn_id = 0

\* t holds a pending delete marker for key
PendingDelete(t, key) ==
    /\ key \in DOMAIN txns[t].write_set
    /\ txns[t].write_set[key].deleted_txn_id # 0

\* the chain of key, empty when the key has none
Chain(key) == IF key \in DOMAIN data THEN data[key] ELSE <<>>

\* the chains with every version created by transaction id c taken out
RECURSIVE DropCreator(_, _)
DropCreator(versions, c) ==
    IF versions = <<>> THEN <<>>
    ELSE IF Head(versions).created_txn_id = c
         THEN DropCreator(Tail(versions), c)
         ELSE <<Head(versions)>> \o DropCreator(Tail(versions), c)

WithoutCreator(d, c) == [k \in DOMAIN d |-> DropCreator(d[k], c)]

\* ================================================================ claims

\* C1: snapshot stability.  For an Active transaction T and a key k that T
\* has neither put nor deleted, get(T,k) has the same outcome before and
\* after every step of the store, whatever other transactions do.
C1_SnapshotStability ==
    [][\A t \in Txns, k \in Keys :
          (/\ IsActive(t) /\ NoPending(t, k)
           /\ IsActive(t)' /\ NoPending(t, k)')
          => GetOutcome(t, k)' = GetOutcome(t, k)]_vars

\* C2: isolation from uncommitted writes.  While T1 is Active and holds a
\* pending put or delete of k, every other transaction T2 gets from
\* get(T2,k) exactly what it gets from the chains with nothing of T1 in
\* them, and T1's put or delete itself leaves what every other transaction
\* reads unchanged.
C2_UncommittedInvisible ==
    /\ [](\A t1 \in Txns, t2 \in Txns, k \in Keys :
            (t1 # t2 /\ IsActive(t1) /\ ~NoPending(t1, k))
            => GetOutcome(t2, k) = GetIn(WithoutCreator(data, txns[t1].id), txns[t2], k))
    /\ [][\A t1 \in Txns, k \in Keys :
            (IsActive(t1) /\ (Delete(t1, k) \/ \E v \in Values : Put(t1, k, v)))
            => \A t2 \in Txns \ {t1}, k2 \in Keys :
                  GetOutcome(t2, k2)' = GetOutcome(t2, k2)]_vars

\* a second transaction reads the prior committed value while the first
\* holds a different pending put of the same key
C2_Witness ==
    \E t1 \in Txns, t2 \in Txns, k \in Keys :
        /\ t1 # t2 /\ IsActive(t1) /\ IsActive(t2)
        /\ PendingPut(t1, k) /\ NoPending(t2, k)
        /\ GetOutcome(t2, k).err = NoError
        /\ GetOutcome(t2, k).ret # txns[t1].write_set[k].value
        /\ result = GetOutcome(t2, k)
        /\ k \in DOMAIN txns[t2].read_set

\* C3: read-your-writes.  put(T,k,v) on an Active T makes get(T,k) return v,
\* and every later step that is not a put or delete of k by T and leaves T
\* Active keeps get(T,k) returning the pending value.
C3_ReadYourWrites ==
    [][\A t \in Txns, k \in Keys :
          /\ \A v \in Values :
                (IsActive(t) /\ Put(t, k, v))
                => GetOutcome(t, k)' = Outcome(NoError, v)
          /\ (/\ IsActive(t) /\ PendingPut(t, k) /\ IsActive(t)'
              /\ ~Delete(t, k) /\ ~(\E v \in Values : Put(t, k, v)))
             => /\ GetOutcome(t, k) = Outcome(NoError, txns[t].write_set[k].value)
                /\ GetOutcome(t, k)' = GetOutcome(t, k)]_vars

\* a transaction reads back its own pending put over a different committed
\* value of the same key
C3_Witness ==
    \E t \in Txns, k \in Keys :
        /\ IsActive(t) /\ PendingPut(t, k)
        /\ Chain(k) # <<>>
        /\ Head(Chain(k)).created_txn_id < txns[t].id
        /\ Head(Chain(k)).deleted_txn_id = 0
        /\ Head(Chain(k)).value # txns[t].write_set[k].value
        /\ result = Outcome(NoError, txns[t].write_set[k].value)

\* C4: a commit by a transaction with a greater id than T never changes what
\* T reads for a key that is not in T's write set.
C4_LaterCommitInvisible ==
    [][\A t \in Txns, t2 \in Txns, k \in Keys :
          (/\ IsActive(t) /\ NoPending(t, k)
           /\ IsActive(t2) /\ txns[t2].id > txns[t].id
           /\ Commit(t2))
          => GetOutcome(t, k)' = GetOutcome(t, k)]_vars

\* T1 committed a value, T2 began, T3 committed another value, and T2 still
\* reads T1's value
C4_Witness ==
    \E t \in Txns, t2 \in Txns, k \in Keys :
        /\ IsActive(t) /\ NoPending(t, k)
        /\ txns[t2].id > txns[t].id /\ txns[t2].state = COMMITTED
        /\ Len(Chain(k)) = 2
        /\ Chain(k)[1].created_txn_id = txns[t2].id
        /\ Chain(k)[2].created_txn_id < txns[t].id
        /\ Chain(k)[2].deleted_txn_id = 0
        /\ Chain(k)[1].value # Chain(k)[2].value
        /\ result = Outcome(NoError, Chain(k)[2].value)
        /\ GetOutcome(t, k) = result

\* what a reader that sees the head of key's chain gets from it
HeadOutcome(key) ==
    IF Head(Chain(key)).deleted_txn_id # 0
    THEN Outcome(KeyNotFoundError, 0)
    ELSE Outcome(NoError, Head(Chain(key)).value)

\* a transaction begun now has an id greater than the creator of every
\* version committed so far
BeginIsNewest ==
    Begin => \A k \in Keys :
                \A i \in DOMAIN Chain(k) : Chain(k)[i].created_txn_id < txn_counter'

\* a commit of delete marker of k by d leaves unchanged what Active
\* transactions with a smaller id that could read k read for k
OlderReadersKeep ==
    \A d \in Txns, t \in Txns, k \in Keys :
        (/\ IsActive(d) /\ PendingDelete(d, k) /\ Commit(d)
         /\ IsActive(t) /\ txns[t].id < txns[d].id /\ NoPending(t, k)
         /\ GetOutcome(t, k).err = NoError)
        => GetOutcome(t, k)' = GetOutcome(t, k)

\* C5 (as stated): once a delete of k by transaction d is committed, every
\* Active transaction with id >= d and no pending put of k of its own gets
\* KeyNotFoundError, and the commit leaves the reads of older Active
\* transactions unchanged.
C5_DeleteShadowing ==
    /\ [](\A k \in Keys : \A i \in DOMAIN Chain(k) :
            Chain(k)[i].deleted_txn_id # 0
            => \A t \in Txns :
                  (/\ IsActive(t) /\ ~PendingPut(t, k)
                   /\ txns[t].id >= Chain(k)[i].created_txn_id)
                  => GetOutcome(t, k).err = KeyNotFoundError)
    /\ [][OlderReadersKeep]_vars

\* C5 (amended): the commit of a delete of k by d puts d's delete marker at
\* the head of k's chain; as long as that marker is the head (no later commit
\* touched k), every Active transaction with id >= d and no pending put of k
\* gets KeyNotFoundError; the commit leaves the reads of older Active
\* transactions unchanged.
C5_DeleteShadowingAtHead ==
    /\ [](\A k \in Keys :
            (Chain(k) # <<>> /\ Head(Chain(k)).deleted_txn_id # 0)
            => \A t \in Txns :
                  (/\ IsActive(t) /\ ~PendingPut(t, k)
                   /\ txns[t].id >= Head(Chain(k)).created_txn_id)
                  => GetOutcome(t, k).err = KeyNotFoundError)
    /\ [][/\ OlderReadersKeep
          /\ \A d \in Txns, k \in Keys :
                (IsActive(d) /\ PendingDelete(d, k) /\ Commit(d))
                => /\ Head(Chain(k))' = txns[d].write_set[k]
                   /\ Head(Chain(k))'.created_txn_id = txns[d].id]_vars

\* a value was committed, a later transaction committed its delete, and a
\* transaction begun after that gets KeyNotFoundError
C5_Witness ==
    \E t \in Txns, k \in Keys :
        /\ IsActive(t) /\ NoPending(t, k)
        /\ Len(Chain(k)) = 2
        /\ Chain(k)[1].deleted_txn_id # 0
        /\ Chain(k)[2].deleted_txn_id = 0
        /\ Chain(k)[1].value = Chain(k)[2].value
        /\ Chain(k)[2].created_txn_id < Chain(k)[1].created_txn_id
        /\ Chain(k)[1].created_txn_id < txns[t].id
        /\ result = Outcome(KeyNotFoundError, 0)

\* C6: last commit wins.  Every commit of an Active transaction succeeds and
\* puts its version of each key it wrote at the head of the chain, over the
\* versions committed before; a transaction begun afterwards has a greater
\* id than every committed version, and a reader that has no pending write
\* of k and whose id is not below the head's creator reads the head.
C6_LastCommitWins ==
    /\ [](\A t \in Txns, k \in Keys :
            (/\ IsActive(t) /\ NoPending(t, k) /\ Chain(k) # <<>>
             /\ Head(Chain(k)).created_txn_id <= txns[t].id)
            => GetOutcome(t, k) = HeadOutcome(k))
    /\ [][/\ BeginIsNewest
          /\ \A t \in Txns :
                (IsActive(t) /\ Commit(t))
                => /\ result'.err = NoError
                   /\ txns'[t].state = COMMITTED
                   /\ \A k \in DOMAIN txns[t].write_set :
                        /\ Head(Chain(k))' = txns[t].write_set[k]
                        /\ Tail(Chain(k)') = Chain(k)]_vars

\* two transactions put different values of k with no committed version
\* before them, the one begun first committed last, and a transaction begun
\* after both reads its value
C6_Witness ==
    \E t \in Txns, k \in Keys :
        /\ IsActive(t) /\ NoPending(t, k)
        /\ Len(Chain(k)) = 2
        /\ Chain(k)[1].deleted_txn_id = 0 /\ Chain(k)[2].deleted_txn_id = 0
        /\ Chain(k)[1].created_txn_id < Chain(k)[2].created_txn_id
        /\ Chain(k)[2].created_txn_id < txns[t].id
        /\ Chain(k)[1].value # Chain(k)[2].value
        /\ result = Outcome(NoError, Chain(k)[1].value)

\* the four calls that go through _check_txn_state, as steps on t
CheckedCall(t, k) ==
    Get(t, k) \/ Delete(t, k) \/ Commit(t) \/ (\E v \in Values : Put(t, k, v))

\* C7: terminal-state closure.  On a Committed transaction get, put, delete,
\* commit and rollback raise TransactionCommittedError; on an Aborted one
\* get, put, delete and commit raise TransactionAbortedError; never
\* KeyNotFoundError.
C7_TerminalClosure ==
    [][\A t \in Txns, k \in Keys :
          /\ (txns[t].state = COMMITTED /\ (CheckedCall(t, k) \/ Rollback(t)))
             => result' = Outcome(TransactionCommittedError, 0)
          /\ (txns[t].state = ABORTED /\ CheckedCall(t, k))
             => result' = Outcome(TransactionAbortedError, 0)]_vars

\* a call on an Aborted transaction raised TransactionAbortedError while the
\* key has no version at all, and a Committed transaction exists too
C7_Witness ==
    /\ \E t \in Txns : txns[t].state = ABORTED
    /\ \E t \in Txns : txns[t].state = COMMITTED
    /\ \A k \in Keys : Chain(k) = <<>>
    /\ result = Outcome(TransactionAbortedError, 0)

\* C8 (as stated): each of the five calls on a transaction that is not
\* Active raises one of the two closed errors.
C8_AllFiveFail ==
    [][\A t \in Txns, k \in Keys :
          (txns[t].state # ACTIVE /\ (CheckedCall(t, k) \/ Rollback(t)))
          => result'.err \in {TransactionCommittedError, TransactionAbortedError}]_vars

\* C8 (amended): get, put, delete and commit raise a closed error on a
\* Committed and on an Aborted transaction; rollback raises it on a Committed
\* transaction only and returns normally on an Aborted one.
C8_ClosedErrors ==
    [][\A t \in Txns, k \in Keys :
          /\ (txns[t].state # ACTIVE /\ CheckedCall(t, k))
             => result'.err \in {TransactionCommittedError, TransactionAbortedError}
          /\ (txns[t].state = COMMITTED /\ Rollback(t))
             => result'.err = TransactionCommittedError
          /\ (txns[t].state = ABORTED /\ Rollback(t))
             => /\ result' = Outcome(NoError, 0)
                /\ txns'[t].state = ABORTED]_vars

\* a call on a Committed transaction raised TransactionCommittedError while
\* an Aborted transaction exists
C8_Witness ==
    /\ \E t \in Txns : txns[t].state = ABORTED
    /\ \E t \in Txns : txns[t].state = COMMITTED
    /\ result = Outcome(TransactionCommittedError, 0)

\* C9: rollback discards everything.  rollback on an Active T leaves the
\* chains and every other transaction unchanged, empties T's write_set and
\* read_set, makes T Aborted and takes it out of active_txns; no chain ever
\* holds a version of an Aborted transaction, so every other transaction
\* reads what it reads from the chains with nothing of T in them.
C9_RollbackDiscards ==
    /\ [](\A t \in Txns :
            txns[t].state = ABORTED
            => /\ txns[t].write_set = <<>> /\ txns[t].read_set = <<>>
               /\ txns[t].id \notin active_txns
               /\ WithoutCreator(data, txns[t].id) = data
               /\ \A t2 \in Txns \ {t}, k \in Keys :
                    GetOutcome(t2, k)
                      = GetIn(WithoutCreator(data, txns[t].id), txns[t2], k))
    /\ [][\A t \in Txns :
            (IsActive(t) /\ Rollback(t))
            => /\ data' = data
               /\ result' = Outcome(NoError, 0)
               /\ txns'[t] = [txns[t] EXCEPT !.state = ABORTED,
                                             !.write_set = <<>>,
                                             !.read_set = <<>>]
               /\ active_txns' = active_txns \ {txns[t].id}
               /\ \A t2 \in Txns \ {t} :
                    /\ txns'[t2] = txns[t2]
                    /\ \A k \in Keys : GetOutcome(t2, k)' = GetOutcome(t2, k)]_vars

\* a version was created and then discarded by a rollback: none is left in
\* any chain or write set, and another transaction gets KeyNotFoundError
C9_Witness ==
    /\ timestamp_counter > 0
    /\ data = <<>>
    /\ \A t \in Txns : txns[t].write_set = <<>>
    /\ \E t \in Txns : txns[t].state = ABORTED
    /\ \E t \in Txns : IsActive(t)
    /\ result = Outcome(KeyNotFoundError, 0)

\* C10: write-then-delete collapses to absent.  delete(T,k) over T's own
\* pending put succeeds and turns it into a delete marker; while T holds the
\* marker get(T,k) raises KeyNotFoundError; commit puts the marker at the head
\* of k's chain; a transaction begun afterwards has a greater id than every
\* committed version, and a reader without a pending write of k whose id is
\* not below the creator of a delete marker at the head gets KeyNotFoundError.
C10_WriteThenDelete ==
    /\ [](\A t \in Txns, k \in Keys :
            /\ (IsActive(t) /\ PendingDelete(t, k))
               => GetOutcome(t, k) = Outcome(KeyNotFoundError, 0)
            /\ (/\ IsActive(t) /\ NoPending(t, k) /\ Chain(k) # <<>>
                /\ Head(Chain(k)).deleted_txn_id # 0
                /\ Head(Chain(k)).created_txn_id <= txns[t].id)
               => GetOutcome(t, k) = Outcome(KeyNotFoundError, 0))
    /\ [][/\ BeginIsNewest
          /\ \A t \in Txns, k \in Keys :
                /\ (IsActive(t) /\ PendingPut(t, k) /\ Delete(t, k))
                   => /\ result' = Outcome(NoError, 0)
                      /\ PendingDelete(t, k)'
                      /\ txns'[t].write_set[k].created_txn_id = txns[t].id
                /\ (/\ IsActive(t) /\ PendingDelete(t, k) /\ IsActive(t)'
                    /\ ~(\E v \in Values : Put(t, k, v)))
                   => PendingDelete(t, k)'
                /\ (IsActive(t) /\ PendingDelete(t, k) /\ Commit(t))
                   => Head(Chain(k))' = txns[t].write_set[k]]_vars

\* a transaction put a value over a different committed one, deleted the
\* key and committed, and a transaction begun later gets KeyNotFoundError
C10_Witness ==
    \E t \in Txns, k \in Keys :
        /\ IsActive(t) /\ NoPending(t, k)
        /\ Len(Chain(k)) = 2
        /\ Chain(k)[1].deleted_txn_id # 0
        /\ Chain(k)[2].deleted_txn_id = 0
        /\ Chain(k)[1].value # Chain(k)[2].value
        /\ Chain(k)[2].created_txn_id < Chain(k)[1].created_txn_id
        /\ Chain(k)[1].created_txn_id < txns[t].id
        /\ result = Outcome(KeyNotFoundError, 0)

\* C11: failure atomicity.  A call that raises (KeyNotFoundError,
\* TransactionCommittedError or TransactionAbortedError) leaves every chain,
\* active_txns and every transaction (state, read_set, write_set) as they
\* were before the call.
C11_FailureAtomicity ==
    [][result'.err # NoError
       => /\ data' = data
          /\ active_txns' = active_txns
          /\ txns' = txns]_vars

\* a get or delete raised KeyNotFoundError while a chain holds a version and
\* an Active transaction holds a pending write and a recorded read
C11_Witness ==
    /\ result = Outcome(KeyNotFoundError, 0)
    /\ \E k \in Keys : Chain(k) # <<>>
    /\ \E t \in Txns : IsActive(t) /\ txns[t].write_set # <<>>
    /\ \E t \in Txns : IsActive(t) /\ txns[t].read_set # <<>>

\* C12: commit on an Active transaction is always possible and always
\* succeeds, whatever the chains hold: it returns normally and the
\* transaction is Committed.  With an empty write set it changes nothing but
\* the transaction's state and its entry in active_txns.
C12_CommitAlwaysSucceeds ==
    /\ [](\A t \in Txns : IsActive(t) => ENABLED Commit(t))
    /\ [][\A t \in Txns :
            (IsActive(t) /\ Commit(t))
            => /\ result' = Outcome(NoError, 0)
               /\ txns'[t].state = COMMITTED
               /\ (txns[t].write_set = <<>>
                   => /\ data' = data
                      /\ txns' = [txns EXCEPT ![t].state = COMMITTED]
                      /\ active_txns' = active_txns \ {txns[t].id}
                      /\ UNCHANGED <<txn_counter, timestamp_counter>>)]_vars

\* a transaction with an empty write set and a recorded read is Committed
\* although a transaction begun after it committed a newer version of the
\* key it read
C12_Witness ==
    \E t \in Txns, k \in Keys :
        /\ txns[t].state = COMMITTED
        /\ txns[t].write_set = <<>>
        /\ k \in DOMAIN txns[t].read_set
        /\ Chain(k) # <<>>
        /\ Head(Chain(k)).created_txn_id > txns[t].id
        /\ txns[t].id \notin active_txns
        /\ result = Outcome(NoError, 0)

\* C13: delete(T,k) on an Active T raises KeyNotFoundError
\* exactly when get(T,k) would raise it at that moment, and succeeds
\* otherwise.
C13_DeleteFailsIffAbsent ==
    [][\A t \in Txns, k \in Keys :
          (IsActive(t) /\ Delete(t, k))
          => IF GetOutcome(t, k).err = KeyNotFoundError
             THEN result' = Outcome(KeyNotFoundError, 0)
             ELSE result' = Outcome(NoError, 0)]_vars

\* C14: rollback on an Aborted transaction is a no-op.  It returns normally
\* and leaves the transaction (Aborted, with empty read_set and write_set),
\* every other transaction, active_txns, the chains and the counters
\* unchanged.
C14_RollbackAbortedNoOp ==
    /\ [](\A t \in Txns :
            txns[t].state = ABORTED
            => txns[t].read_set = <<>> /\ txns[t].write_set = <<>>)
    /\ [][\A t \in Txns :
            (txns[t].state = ABORTED /\ Rollback(t))
            => /\ result' = Outcome(NoError, 0)
               /\ UNCHANGED <<data, txn_counter, timestamp_counter,
                              active_txns, txns>>]_vars

\* an Aborted transaction on which a call has just raised
\* TransactionAbortedError, beside a committed version and an Active
\* transaction; rollback on it is possible and returns normally
C14_Witness ==
    \E t \in Txns :
        /\ txns[t].state = ABORTED
        /\ result = Outcome(TransactionAbortedError, 0)
        /\ \E k \in Keys : Chain(k) # <<>>
        /\ active_txns # {}
        /\ ENABLED (Rollback(t) /\ result' = Outcome(NoError, 0))

\* C15: commit is atomic with the state transition.  In every state, each
\* write-set entry of a Committed transaction is in the chain of its key, no
\* chain holds a version created by an Active or Aborted transaction, and the
\* creator of every version in every chain is a Committed transaction.
C15_CommitAtomic ==
    /\ \A t \in Txns :
          IF txns[t].state = COMMITTED
          THEN \A k \in DOMAIN txns[t].write_set :
                  \E i \in DOMAIN Chain(k) : Chain(k)[i] = txns[t].write_set[k]
          ELSE \A k \in Keys : \A i \in DOMAIN Chain(k) :
                  Chain(k)[i].created_txn_id # txns[t].id
    /\ \A k \in Keys : \A i \in DOMAIN Chain(k) :
          /\ Chain(k)[i].created_txn_id \in Txns
          /\ txns[Chain(k)[i].created_txn_id].state = COMMITTED

\* a Committed transaction's version is in the chain while an Active
\* transaction holds a pending write of the same key that is in no chain,
\* and an Aborted transaction exists
C15_Witness ==
    \E t \in Txns, t2 \in Txns, t3 \in Txns, k \in Keys :
        /\ txns[t].state = COMMITTED /\ k \in DOMAIN txns[t].write_set
        /\ Chain(k) = <<txns[t].write_set[k]>>
        /\ IsActive(t2) /\ ~NoPending(t2, k)
        /\ txns[t3].state = ABORTED

\* the chain positions of key whose version t can see
VisiblePositions(t, key) ==
    {i \in DOMAIN Chain(key) : Chain(key)[i].created_txn_id <= txns[t].id}

\* the least element of a non-empty set of positions
Nearest(S) == CHOOSE i \in S : \A j \in S : i <= j

CommittedWriters(key) ==
    {t \in Txns : txns[t].state = COMMITTED /\ key \in DOMAIN txns[t].write_set}

\* C17: chains are append-only at the head.  A chain changes only by the
\* commit of an Active transaction that has the key in its write set, which
\* puts exactly that one version at the head and keeps the previous chain
\* as the rest, in the same order; a commit leaves the chains of other keys
\* alone; and the length of a chain is the number of Committed transactions
\* whose write set holds the key.
C17_ChainAppendOnly ==
    /\ [](\A k \in Keys : Len(Chain(k)) = Cardinality(CommittedWriters(k)))
    /\ [][\A k \in Keys :
            /\ Chain(k)' # Chain(k)
               => /\ Chain(k)' # <<>>
                  /\ Tail(Chain(k)') = Chain(k)
                  /\ \E t \in Txns :
                        /\ IsActive(t) /\ Commit(t)
                        /\ ~NoPending(t, k)
                        /\ Head(Chain(k)') = txns[t].write_set[k]
            /\ \A t \in Txns :
                  (IsActive(t) /\ Commit(t))
                  => Chain(k)' = IF NoPending(t, k)
                                 THEN Chain(k)
                                 ELSE <<txns[t].write_set[k]>> \o Chain(k)]_vars

\* two transactions committed a version of the same key and the chain holds
\* both, the later commit at the head, while a third transaction that
\* committed nothing for the key left the chain alone
C17_Witness ==
    \E k \in Keys :
        /\ Len(Chain(k)) = 2
        /\ Cardinality(CommittedWriters(k)) = 2
        /\ Chain(k)[1].timestamp # Chain(k)[2].timestamp
        /\ \E t \in Txns : txns[t].state = COMMITTED /\ NoPending(t, k)

C19_StateMachine ==
    /\ [](\A t \in Txns : txns[t].state \in {ACTIVE, COMMITTED, ABORTED})
    /\ [][/\ Txns \subseteq DOMAIN txns'
          /\ \A t \in (DOMAIN txns') \ Txns :
                /\ txns'[t].state = ACTIVE
                /\ txns'[t].read_set = <<>>
                /\ txns'[t].write_set = <<>>
          /\ \A t \in Txns :
                /\ txns[t].state # ACTIVE => txns'[t] = txns[t]
                /\ txns'[t].state # txns[t].state
                   => \/ txns'[t].state = COMMITTED /\ Commit(t)
                      \/ txns'[t].state = ABORTED /\ Rollback(t)]_vars

\* a Committed transaction that still holds the write it committed,
\* an Aborted one and an Active one with a pending write, just after a call
\* on the Committed one was rejected
C19_Witness ==
    \E t \in Txns, t2 \in Txns, t3 \in Txns, k \in Keys :
        /\ txns[t].state = COMMITTED
        /\ ~NoPending(t, k)
        /\ txns[t2].state = ABORTED
        /\ IsActive(t3) /\ ~NoPending(t3, k)
        /\ result = Outcome(TransactionCommittedError, 0)

\* C20: the active registry.  Between calls a transaction id is in
\* active_txns exactly when that transaction is Active; the registry changes
\* only when begin adds the new id or when a commit or rollback of an Active
\* transaction removes that transaction's id.
C20_ActiveRegistry ==
    /\ [](active_txns = {txns[t].id : t \in {u \in Txns : IsActive(u)}})
    /\ [][/\ \A t \in (DOMAIN txns') \ Txns :
                /\ txns'[t].id \notin active_txns
                /\ txns'[t].id \in active_txns'
          /\ active_txns' # active_txns
             => \/ Begin /\ active_txns' = active_txns \cup {txn_counter'}
                \/ \E t \in Txns :
                      /\ IsActive(t)
                      /\ Commit(t) \/ Rollback(t)
                      /\ active_txns' = active_txns \ {txns[t].id}]_vars

\* the registry holds exactly the one Active transaction, the other two
\* having left it by commit and by rollback
C20_Witness ==
    \E t \in Txns, t2 \in Txns, t3 \in Txns :
        /\ txns[t].state = COMMITTED
        /\ txns[t2].state = ABORTED
        /\ IsActive(t3)
        /\ active_txns = {txns[t3].id}
        /\ txn_counter = 3

\* C21: transaction ids are unique and sequential.  txns lists the
\* transactions in the order begin returned them: the n-th has id n and
\* begin_time n, whatever commits and rollbacks came in between, so no two
\* transactions, ended or not, share an id; txn_counter is the id handed
\* out last.
C21_SequentialIds ==
    /\ txn_counter = Len(txns)
    /\ \A n \in Txns : txns[n].id = n /\ txns[n].begin_time = n
    /\ \A n \in Txns, m \in Txns : txns[n].id = txns[m].id => n = m

\* the third begin has just returned id 3, after the first transaction
\* committed and the second rolled back
C21_Witness ==
    /\ Len(txns) = 3
    /\ txns[1].state = COMMITTED
    /\ txns[2].state = ABORTED
    /\ txns[3] = Transaction(3, 3, ACTIVE)
    /\ active_txns = {3}
    /\ result = Outcome(NoError, 0)

\* C22: blind writes.  A put(T,k,v) on an Active T returns normally whether
\* or not k has a chain, a visible version or a pending entry, and leaves in
\* T's write set a fresh live version of v created by T, in place of any
\* pending entry and of a pending delete marker too, so that get(T,k) then
\* returns v; and the commit of a T holding a pending put of k puts that
\* version at the head of k's chain, where every transaction begun after T
\* finds it.
C22_BlindWrites ==
    /\ [](\A t \in Txns, k \in Keys, v \in Values :
            (IsActive(t) /\ timestamp_counter < MaxTimestamp)
            => ENABLED (Put(t, k, v) /\ result' = Outcome(NoError, 0)))
    /\ [][\A t \in Txns, k \in Keys :
            IsActive(t)
            => /\ \A v \in Values :
                    \/ /\ result' = Outcome(NoError, 0)
                       /\ PendingPut(t, k)'
                       /\ txns'[t].write_set[k]
                            = Version(v, txns[t].id, 0, timestamp_counter + 1)
                       /\ GetOutcome(t, k)' = Outcome(NoError, v)
                    \/ ~Put(t, k, v)
               /\ PendingPut(t, k)
                  => \/ /\ Chain(k)' # <<>>
                        /\ Head(Chain(k)') = txns[t].write_set[k]
                        /\ \A t2 \in Txns :
                              txns[t2].begin_time > txns[t].id
                              => FindVisibleIn(data', k, txns'[t2])
                                    = txns[t].write_set[k]
                     \/ ~Commit(t)]_vars

\* the first transaction wrote k twice and committed, so that the chain is
\* its second version alone, and the transaction begun after it has just
\* read that version's value from the chain
C22_Witness ==
    \E k \in Keys :
        /\ Len(txns) = 2
        /\ txns[1].state = COMMITTED
        /\ PendingPut(1, k) /\ txns[1].write_set[k].timestamp = 2
        /\ Chain(k) = <<txns[1].write_set[k]>>
        /\ IsActive(2) /\ NoPending(2, k)
        /\ k \in DOMAIN txns[2].read_set /\ txns[2].read_set[k] = 2
        /\ result = Outcome(NoError, txns[1].write_set[k].value)

\* C23: read-your-own-deletes.  A delete(T,k) that returns normally on an
\* Active T leaves a pending delete marker for k in T's write set and
\* changes what no other transaction reads; while T is Active the marker
\* goes away only in a put(T,k,v); and as long as it is there get(T,k)
\* raises KeyNotFoundError and changes nothing.
C23_ReadYourDeletes ==
    /\ [](\A t \in Txns, k \in Keys :
            (IsActive(t) /\ PendingDelete(t, k))
            => GetOutcome(t, k) = Outcome(KeyNotFoundError, 0))
    /\ [][\A t \in Txns, k \in Keys :
            IsActive(t)
            => /\ \/ /\ PendingDelete(t, k)'
                     /\ \A t2 \in Txns \ {t} :
                           GetOutcome(t2, k)' = GetOutcome(t2, k)
                  \/ result'.err # NoError
                  \/ ~Delete(t, k)
               /\ (PendingDelete(t, k) /\ IsActive(t)' /\ ~PendingDelete(t, k)')
                  => \E v \in Values : Put(t, k, v)
               /\ PendingDelete(t, k)
                  => \/ /\ result' = Outcome(KeyNotFoundError, 0)
                        /\ UNCHANGED <<data, txn_counter, timestamp_counter,
                                       active_txns, txns>>
                     \/ ~Get(t, k)]_vars

\* a transaction has deleted the key, whose committed version another
\* Active transaction still reads, and its own get has just raised
\* KeyNotFoundError
C23_Witness ==
    \E t \in Txns, t2 \in Txns, k \in Keys :
        /\ IsActive(t) /\ PendingDelete(t, k)
        /\ Chain(k) # <<>> /\ Head(Chain(k)).deleted_txn_id = 0
        /\ txns[t].write_set[k].timestamp > Head(Chain(k)).timestamp
        /\ t2 # t /\ IsActive(t2)
        /\ GetOutcome(t2, k) = Outcome(NoError, Head(Chain(k)).value)
        /\ result = Outcome(KeyNotFoundError, 0)

C25_OneVersionPerCreator ==
    \A k \in DOMAIN data : \A i \in 1..Len(data[k]), j \in 1..Len(data[k]) :
        data[k][i].created_txn_id = data[k][j].created_txn_id => i = j

\* two transactions have each committed a live version of the key, and a
\* further call on one of them has just been rejected as already committed
C25_Witness ==
    \E k \in Keys :
        /\ Len(Chain(k)) = 2
        /\ Chain(k)[1].deleted_txn_id = 0 /\ Chain(k)[2].deleted_txn_id = 0
        /\ Chain(k)[1].created_txn_id # Chain(k)[2].created_txn_id
        /\ result = Outcome(TransactionCommittedError, 0)

\* C26: delete validates existence through the read path.  A delete(T,k) on
\* an Active T with no pending entry for k and a visible version of k
\* records k in T's read set with that version's timestamp, besides
\* installing the delete marker; a get(T,k) served from the chain records
\* the same entry; a get served from the write set leaves the transaction
\* as it is.
C26_DeleteRecordsRead ==
    [][\A t \in Txns, k \in Keys :
          IsActive(t)
          => /\ (NoPending(t, k) /\ _find_visible_version(k, txns[t]) # None)
                => /\ \/ /\ k \in DOMAIN txns'[t].read_set
                         /\ txns'[t].read_set[k]
                              = _find_visible_version(k, txns[t]).timestamp
                         /\ PendingDelete(t, k)'
                      \/ ~Delete(t, k)
                   /\ \/ /\ k \in DOMAIN txns'[t].read_set
                         /\ txns'[t].read_set[k]
                              = _find_visible_version(k, txns[t]).timestamp
                         /\ NoPending(t, k)'
                      \/ ~Get(t, k)
             /\ ~NoPending(t, k) => (txns' = txns \/ ~Get(t, k))]_vars

====
